---- MODULE Spec2Model ----
(***************************************************************************)
(* Offsets / UTF-8 invariant checker of arrow2                             *)
(* (src/array/specification.rs).                                           *)
(*                                                                         *)
(* Offsets are modelled as non-negative integers, for which the comparison  *)
(* of two offsets and the comparison of their to_usize() values agree;      *)
(* bytes are the integers 0..255.  Sequences are 1-based, so the Rust       *)
(* element offsets[k] is offsets[k+1] here and the Rust slice               *)
(* values[start..end] is SubSeq(values, start+1, end).                      *)
(***************************************************************************)
EXTENDS Integers, Sequences, FiniteSets, TLC

VARIABLES
    offsets,     \* argument `offsets: &[O]`
    values,      \* argument `values: &[u8]`
    values_len,  \* argument `values_len: usize` (values.len() for the utf8 forms)
    fn,          \* the function that was called
    pc,          \* "idle" | "loop" | "done": position inside the call
    i,           \* index of the next window of offsets.windows(2), 1-based
    result,      \* "None" | "Ok" | "ErrMonotonic" | "ErrBounds" | "ErrUtf8" | "Panic"
    ret,         \* value returned by check_offsets_minimal
    sliced,      \* windows whose slice &values[start..end] has been taken
    validated,   \* windows whose slice was handed to simdutf8::basic::from_utf8
    skipped,     \* windows accepted by the per-item ASCII fast path
    records,     \* the logical records handed to the container writer
    avro         \* per codec: the container written and the state of its read pipeline

chk_vars == <<offsets, values, values_len, fn, pc, i, result, ret,
              sliced, validated, skipped>>
avro_vars == <<records, avro>>
vars == <<chk_vars, avro_vars>>

----------------------------------------------------------------------------
(* Bounds of the model *)

MaxOffsets == 3   \* longest offsets sequence
MaxOffset == 3    \* largest offset / values_len in the offsets-only specification
MaxHead == 3      \* longest arbitrary prefix of a values buffer

SIMD_CHUNK_SIZE == 64

\* 'A', the lead byte of a 2-byte character, a continuation byte.
\* 0xC3 0xA9 is U+00E9.
Bytes == {65, 195, 169}

RECURSIVE SeqsUpTo(_, _)
SeqsUpTo(S, n) ==
    IF n = 0 THEN {<<>>}
    ELSE LET shorter == SeqsUpTo(S, n - 1)
         IN  shorter \cup {Append(s, x) : s \in {t \in shorter : Len(t) = n - 1}, x \in S}

RECURSIVE Pad(_)
Pad(n) == IF n = 0 THEN <<>> ELSE <<65>> \o Pad(n - 1)

\* Values buffers: an arbitrary prefix, optionally followed by one SIMD chunk
\* of ASCII, so that slices on both sides of the 64-byte threshold occur.
ValueBufs == {h \o Pad(n) : h \in SeqsUpTo(Bytes, MaxHead), n \in {0, SIMD_CHUNK_SIZE}}

\* Offsets tried against a values buffer: around its start and around its end.
Positions(vals) ==
    {p \in 0..(Len(vals) + 1) : p <= MaxHead \/ p >= Len(vals) - 1}

----------------------------------------------------------------------------
(* Pure helpers *)

IsErr(r) == r \in {"ErrMonotonic", "ErrBounds", "ErrUtf8"}

\* <[u8]>::is_ascii
is_ascii(s) == \A k \in 1..Len(s) : s[k] < 128

IsCont(b) == b >= 128 /\ b <= 191

\* simdutf8::basic::from_utf8(slice).is_ok(): well-formed UTF-8 (RFC 3629).
RECURSIVE from_utf8_ok(_)
from_utf8_ok(s) ==
    IF Len(s) = 0 THEN TRUE
    ELSE LET b == s[1]
             n == Len(s)
             rest(k) == SubSeq(s, k + 1, n)
         IN  IF b < 128 THEN from_utf8_ok(rest(1))
             ELSE IF b >= 194 /\ b <= 223
                  THEN n >= 2 /\ IsCont(s[2]) /\ from_utf8_ok(rest(2))
             ELSE IF b >= 224 /\ b <= 239
                  THEN /\ n >= 3
                       /\ IsCont(s[2]) /\ IsCont(s[3])
                       /\ (b = 224 => s[2] >= 160)
                       /\ (b = 237 => s[2] <= 159)
                       /\ from_utf8_ok(rest(3))
             ELSE IF b >= 240 /\ b <= 244
                  THEN /\ n >= 4
                       /\ IsCont(s[2]) /\ IsCont(s[3]) /\ IsCont(s[4])
                       /\ (b = 240 => s[2] >= 144)
                       /\ (b = 244 => s[2] <= 143)
                       /\ from_utf8_ok(rest(4))
             ELSE FALSE

\* offsets.windows(2): the indices k with the pair (offs[k], offs[k+1])
Windows(offs) == 1..(Len(offs) - 1)

----------------------------------------------------------------------------
(* The functions of specification.rs *)

\* Mutant: returns offsets.len() instead of offsets.len() - 1.
check_offsets_minimal_len(offs, vl) ==
    IF Len(offs) = 0
    THEN [result |-> "Panic", ret |-> 0]
    ELSE IF vl # offs[Len(offs)]
    THEN [result |-> "Panic", ret |-> 0]
    ELSE [result |-> "Ok", ret |-> Len(offs)]

\* Mutant: the last offset may be smaller than values_len (>= for ==).
check_offsets_minimal_ge(offs, vl) ==
    IF Len(offs) = 0
    THEN [result |-> "Panic", ret |-> 0]
    ELSE IF vl < offs[Len(offs)]
    THEN [result |-> "Panic", ret |-> 0]
    ELSE [result |-> "Ok", ret |-> Len(offs) - 1]

\* check_offsets_minimal: [result, ret]
check_offsets_minimal(offs, vl) ==
    IF Len(offs) = 0
    THEN [result |-> "Panic", ret |-> 0]
    ELSE LET len == Len(offs) - 1
             last_offset == offs[len + 1]
         IN  IF vl # last_offset
             THEN [result |-> "Panic", ret |-> 0]
             ELSE [result |-> "Ok", ret |-> len]

\* Mutant: the monotonicity test is dropped, only the last offset is tested.
try_check_offsets_last_only(offs, vl) ==
    IF Len(offs) > 0 /\ offs[Len(offs)] > vl THEN "ErrBounds" ELSE "Ok"

\* Mutant: the bound is tested with >=, as the doc comment of check_offsets words it.
try_check_offsets_ge(offs, vl) ==
    IF \E k \in Windows(offs) : offs[k] > offs[k + 1]
    THEN "ErrMonotonic"
    ELSE IF Len(offs) > 0 /\ offs[Len(offs)] >= vl
    THEN "ErrBounds"
    ELSE "Ok"

try_check_offsets(offs, vl) ==
    IF \E k \in Windows(offs) : offs[k] > offs[k + 1]
    THEN "ErrMonotonic"
    ELSE IF Len(offs) > 0 /\ offs[Len(offs)] > vl
    THEN "ErrBounds"
    ELSE "Ok"

\* Result::unwrap
unwrap(r) == IF IsErr(r) THEN "Panic" ELSE r

check_offsets(offs, vl) == unwrap(try_check_offsets(offs, vl))

\* Mutant: the slice is taken before the monotonicity and bounds tests.
window_step_slice_first(start, end, vals) ==
    IF ~(start <= end /\ end <= Len(vals))
    THEN [res |-> "Panic", sliced |-> TRUE, validated |-> FALSE, skipped |-> FALSE]
    ELSE LET slice == SubSeq(vals, start + 1, end)
         IN  IF Len(slice) < SIMD_CHUNK_SIZE /\ is_ascii(slice)
             THEN [res |-> "Continue", sliced |-> TRUE, validated |-> FALSE, skipped |-> TRUE]
             ELSE [res |-> IF from_utf8_ok(slice) THEN "Continue" ELSE "ErrUtf8",
                   sliced |-> TRUE, validated |-> TRUE, skipped |-> FALSE]

\* Mutant: the fast path tests the length of the slice only.
window_step_len_only(start, end, vals) ==
    IF start > end
    THEN [res |-> "ErrMonotonic", sliced |-> FALSE, validated |-> FALSE, skipped |-> FALSE]
    ELSE IF end > Len(vals)
    THEN [res |-> "ErrBounds", sliced |-> FALSE, validated |-> FALSE, skipped |-> FALSE]
    ELSE LET slice == SubSeq(vals, start + 1, end)
         IN  IF Len(slice) < SIMD_CHUNK_SIZE
             THEN [res |-> "Continue", sliced |-> TRUE, validated |-> FALSE, skipped |-> TRUE]
             ELSE [res |-> IF from_utf8_ok(slice) THEN "Continue" ELSE "ErrUtf8",
                   sliced |-> TRUE, validated |-> TRUE, skipped |-> FALSE]

\* Mutant: the fast path takes slices of up to SIMD_CHUNK_SIZE bytes (<= for <).
window_step_le(start, end, vals) ==
    IF start > end
    THEN [res |-> "ErrMonotonic", sliced |-> FALSE, validated |-> FALSE, skipped |-> FALSE]
    ELSE IF end > Len(vals)
    THEN [res |-> "ErrBounds", sliced |-> FALSE, validated |-> FALSE, skipped |-> FALSE]
    ELSE LET slice == SubSeq(vals, start + 1, end)
         IN  IF Len(slice) <= SIMD_CHUNK_SIZE /\ is_ascii(slice)
             THEN [res |-> "Continue", sliced |-> TRUE, validated |-> FALSE, skipped |-> TRUE]
             ELSE [res |-> IF from_utf8_ok(slice) THEN "Continue" ELSE "ErrUtf8",
                   sliced |-> TRUE, validated |-> TRUE, skipped |-> FALSE]

\* One iteration of the loop of try_check_offsets_and_utf8 on the window
\* (start, end): what it returns ("Continue" when the loop goes on), and
\* whether the slice was taken / handed to the validator / fast-pathed.
\* Taking &values[start..end] panics unless start <= end <= values.len().
window_step(start, end, vals) ==
    IF start > end
    THEN [res |-> "ErrMonotonic", sliced |-> FALSE, validated |-> FALSE, skipped |-> FALSE]
    ELSE IF end > Len(vals)
    THEN [res |-> "ErrBounds", sliced |-> FALSE, validated |-> FALSE, skipped |-> FALSE]
    ELSE LET slice == SubSeq(vals, start + 1, end)
         IN  IF Len(slice) < SIMD_CHUNK_SIZE /\ is_ascii(slice)
             THEN [res |-> "Continue", sliced |-> TRUE, validated |-> FALSE, skipped |-> TRUE]
             ELSE [res |-> IF from_utf8_ok(slice) THEN "Continue" ELSE "ErrUtf8",
                   sliced |-> TRUE, validated |-> TRUE, skipped |-> FALSE]

\* Mutant: the whole-buffer ASCII short cut is never taken.
takes_ascii_path_never(vals) == FALSE

\* The branch taken on entry of try_check_offsets_and_utf8.
takes_ascii_path(vals) == is_ascii(vals)

\* check_offsets_and_utf8 is try_check_offsets_and_utf8(..).unwrap()
Finish(f, r) == IF f = "check_offsets_and_utf8" THEN unwrap(r) ELSE r

----------------------------------------------------------------------------
(* The Avro container pipeline (tests/it/io/avro/read.rs drives it; the    *)
(* reader itself is modelled from its description: metadata parser, block   *)
(* stream iterator, decompressor, record decoder, chunk assembler).         *)
(* A logical record is <<a, b, g>>: a long, a string (its bytes), and an    *)
(* optional string (<<>> for null, <<s>> for the string s).                 *)

MaxRecords == 2   \* most records written to one container

Codecs == {"null", "deflate", "snappy"}

\* The fields a, b and g of schema(): a long, a string and a ["null", "string"] union.
AvroSchema ==
    << [name |-> "a", type |-> "long", union_null |-> FALSE],
       [name |-> "b", type |-> "string", union_null |-> FALSE],
       [name |-> "g", type |-> "string", union_null |-> TRUE] >>

\* The 16-byte synchronisation marker and the magic bytes "Obj\x01".
Marker == [k \in 1..16 |-> 16 + k]
Magic == <<79, 98, 106, 1>>

RecordValues == {<<a, b, g>> : a \in {-1, 100}, b \in {<<>>, <<102, 111>>}, g \in {<<>>, <<<<102>>>>}}

NonEmptyRecordSeqs == SeqsUpTo(RecordValues, MaxRecords) \ {<<>>}

\* Schema resolver: primitives map 1:1, a union of null and T is a nullable T.
resolve_schema(avro_schema) ==
    [k \in 1..Len(avro_schema) |->
        [name |-> avro_schema[k].name,
         data_type |-> IF avro_schema[k].type = "long" THEN "Int64" ELSE "Utf8",
         is_nullable |-> avro_schema[k].union_null]]

\* --- binary encoding of records (the writer's side)

zigzag(n) == IF n >= 0 THEN 2 * n ELSE -2 * n - 1

RECURSIVE varint(_)
varint(u) == IF u < 128 THEN <<u>> ELSE <<128 + (u % 128)>> \o varint(u \div 128)

encode_long(n) == varint(zigzag(n))

encode_plain(type, v) == IF type = "long" THEN encode_long(v) ELSE encode_long(Len(v)) \o v

encode_field(field, v) ==
    IF field.union_null
    THEN IF v = <<>> THEN encode_long(0) ELSE encode_long(1) \o encode_plain(field.type, v[1])
    ELSE encode_plain(field.type, v)

RECURSIVE encode_record(_, _)
encode_record(rec, k) ==
    IF k > Len(AvroSchema) THEN <<>>
    ELSE encode_field(AvroSchema[k], rec[k]) \o encode_record(rec, k + 1)

RECURSIVE encode_records(_)
encode_records(recs) ==
    IF recs = <<>> THEN <<>> ELSE encode_record(Head(recs), 1) \o encode_records(Tail(recs))

\* --- block codecs (the writer's side)

\* Raw deflate, as one stored block: BFINAL=1/BTYPE=00, LEN, NLEN, the bytes.
deflate_compress(data) ==
    LET n == Len(data)
    IN  <<1, n % 256, n \div 256, 255 - (n % 256), 255 - (n \div 256)>> \o data

\* Snappy literal elements of at most 60 bytes: tag (len-1)*4, the bytes.
RECURSIVE snappy_literals(_)
snappy_literals(data) ==
    IF data = <<>> THEN <<>>
    ELSE LET n == IF Len(data) < 60 THEN Len(data) ELSE 60
         IN  <<(n - 1) * 4>> \o SubSeq(data, 1, n) \o snappy_literals(SubSeq(data, n + 1, Len(data)))

RECURSIVE byte_sum(_)
byte_sum(data) == IF data = <<>> THEN 0 ELSE Head(data) + byte_sum(Tail(data))

\* The 4 checksum bytes Avro appends to a snappy block (a sum stands for the CRC-32).
checksum(data) == <<0, 0, (byte_sum(data) \div 256) % 256, byte_sum(data) % 256>>

\* Snappy: the uncompressed length as a varint, the elements, then the checksum.
snappy_compress(data) == varint(Len(data)) \o snappy_literals(data) \o checksum(data)

compress(codec, data) ==
    IF codec = "deflate" THEN deflate_compress(data)
    ELSE IF codec = "snappy" THEN snappy_compress(data)
    ELSE data

\* write_avro: the container for `recs` under `codec`: magic, metadata, marker,
\* then one block (count, byte length, body, marker).
write_avro(codec, recs) ==
    LET body == compress(codec, encode_records(recs))
    IN  [magic |-> Magic,
         meta |-> [schema |-> AvroSchema, codec |-> codec],
         marker |-> Marker,
         blocks |-> encode_long(Len(recs)) \o encode_long(Len(body)) \o body \o Marker]

\* data(): the chunk expected for `recs`, built column by column.
RECURSIVE concat_all(_)
concat_all(ss) == IF ss = <<>> THEN <<>> ELSE Head(ss) \o concat_all(Tail(ss))

RECURSIVE running_offsets(_, _)
running_offsets(lens, from) ==
    IF lens = <<>> THEN <<from>>
    ELSE <<from>> \o running_offsets(Tail(lens), from + Head(lens))

utf8_column(strs, valid) ==
    [data_type |-> "Utf8",
     offsets |-> running_offsets([r \in 1..Len(strs) |-> Len(strs[r])], 0),
     values |-> concat_all(strs),
     validity |-> valid]

data(recs) ==
    LET n == Len(recs)
    IN  << [data_type |-> "Int64", offsets |-> <<>>,
            values |-> [r \in 1..n |-> recs[r][1]],
            validity |-> [r \in 1..n |-> TRUE]],
           utf8_column([r \in 1..n |-> recs[r][2]], [r \in 1..n |-> TRUE]),
           utf8_column([r \in 1..n |-> IF recs[r][3] = <<>> THEN <<>> ELSE recs[r][3][1]],
                       [r \in 1..n |-> recs[r][3] # <<>>]) >>

\* --- the reader

zigzag_decode(u) == IF u % 2 = 0 THEN u \div 2 ELSE -((u + 1) \div 2)

\* Reads a varint at position p (1-based): [ok, value, pos]; fails at EOF.
RECURSIVE read_varint(_, _)
read_varint(bs, p) ==
    IF p > Len(bs) THEN [ok |-> FALSE, value |-> 0, pos |-> p]
    ELSE IF bs[p] < 128 THEN [ok |-> TRUE, value |-> bs[p], pos |-> p + 1]
    ELSE LET more == read_varint(bs, p + 1)
         IN  [ok |-> more.ok, value |-> (bs[p] - 128) + 128 * more.value, pos |-> more.pos]

read_long(bs, p) ==
    LET v == read_varint(bs, p)
    IN  [ok |-> v.ok, value |-> zigzag_decode(v.value), pos |-> v.pos]

\* Metadata parser: magic bytes, schema, codec name, marker.
read_metadata(file) ==
    IF file.magic # Magic \/ file.meta.codec \notin Codecs
    THEN [ok |-> FALSE, avro_schema |-> <<>>, schema |-> <<>>, codec |-> "null", marker |-> <<>>]
    ELSE [ok |-> TRUE,
          avro_schema |-> file.meta.schema,
          schema |-> resolve_schema(file.meta.schema),
          codec |-> file.meta.codec,
          marker |-> file.marker]

\* Block stream iterator: record count, byte length, body, then the marker,
\* which must equal the file marker.
next_block(blocks, file_marker) ==
    LET none == [ok |-> FALSE, count |-> 0, body |-> <<>>]
        count == read_long(blocks, 1)
        bytes == read_long(blocks, count.pos)
        stop == bytes.pos + bytes.value - 1
    IN  IF ~count.ok \/ count.value < 0 THEN none
        ELSE IF ~bytes.ok \/ bytes.value < 0 THEN none
        ELSE IF stop + 16 > Len(blocks) THEN none
        ELSE IF SubSeq(blocks, stop + 1, stop + 16) # file_marker THEN none
        ELSE [ok |-> TRUE, count |-> count.value, body |-> SubSeq(blocks, bytes.pos, stop)]

deflate_decompress(body) ==
    LET bad == [ok |-> FALSE, bytes |-> <<>>]
    IN  IF Len(body) < 5 \/ body[1] # 1 THEN bad
        ELSE LET n == body[2] + 256 * body[3]
             IN  IF body[4] # 255 - body[2] \/ body[5] # 255 - body[3] \/ Len(body) # 5 + n
                 THEN bad
                 ELSE [ok |-> TRUE, bytes |-> SubSeq(body, 6, Len(body))]

\* The literal elements of bs from position p on: [ok, bytes].
RECURSIVE snappy_elements(_, _)
snappy_elements(bs, p) ==
    IF p > Len(bs) THEN [ok |-> TRUE, bytes |-> <<>>]
    ELSE LET n == (bs[p] \div 4) + 1
         IN  IF bs[p] % 4 # 0 \/ n > 60 \/ p + n > Len(bs)
             THEN [ok |-> FALSE, bytes |-> <<>>]
             ELSE LET more == snappy_elements(bs, p + n + 1)
                  IN  [ok |-> more.ok, bytes |-> SubSeq(bs, p + 1, p + n) \o more.bytes]

\* Snappy: the last 4 bytes (checksum) are cut off, the rest is decompressed.
snappy_decompress(body) ==
    LET bad == [ok |-> FALSE, bytes |-> <<>>]
    IN  IF Len(body) < 4 THEN bad
        ELSE LET raw == SubSeq(body, 1, Len(body) - 4)
                 len == read_varint(raw, 1)
             IN  IF ~len.ok THEN bad
                 ELSE LET out == snappy_elements(raw, len.pos)
                      IN  IF out.ok /\ Len(out.bytes) = len.value THEN out ELSE bad

\* Mutant: the codec of the metadata is ignored, blocks are passed through.
decompress_passthrough(codec, body) == [ok |-> TRUE, bytes |-> body]

\* Decompressor: per-block transform selected by the codec of the metadata.
decompress(codec, body) ==
    IF codec = "deflate" THEN deflate_decompress(body)
    ELSE IF codec = "snappy" THEN snappy_decompress(body)
    ELSE [ok |-> TRUE, bytes |-> body]

\* Typed column builders.
new_builder(field) ==
    [data_type |-> field.data_type,
     offsets |-> IF field.data_type = "Utf8" THEN <<0>> ELSE <<>>,
     values |-> <<>>, validity |-> <<>>]

push_null(col) ==
    IF col.data_type = "Utf8"
    THEN [col EXCEPT !.offsets = Append(@, col.offsets[Len(col.offsets)]),
                     !.validity = Append(@, FALSE)]
    ELSE [col EXCEPT !.values = Append(@, 0), !.validity = Append(@, FALSE)]

\* Decodes one non-null value at p into col: [ok, pos, col].
decode_value(bs, p, col) ==
    LET n == read_long(bs, p)
    IN  IF ~n.ok THEN [ok |-> FALSE, pos |-> p, col |-> col]
        ELSE IF col.data_type = "Int64"
        THEN [ok |-> TRUE, pos |-> n.pos,
              col |-> [col EXCEPT !.values = Append(@, n.value), !.validity = Append(@, TRUE)]]
        ELSE IF n.value < 0 \/ n.pos + n.value - 1 > Len(bs)
        THEN [ok |-> FALSE, pos |-> p, col |-> col]
        ELSE [ok |-> TRUE, pos |-> n.pos + n.value,
              col |-> [col EXCEPT
                         !.values = @ \o SubSeq(bs, n.pos, n.pos + n.value - 1),
                         !.offsets = Append(@, col.offsets[Len(col.offsets)] + n.value),
                         !.validity = Append(@, TRUE)]]

\* Decodes field k of a record: a nullable field starts with the union branch.
decode_field(bs, p, field, col) ==
    IF ~field.is_nullable THEN decode_value(bs, p, col)
    ELSE LET branch == read_long(bs, p)
         IN  IF ~branch.ok \/ branch.value \notin {0, 1}
             THEN [ok |-> FALSE, pos |-> p, col |-> col]
             ELSE IF branch.value = 0
             THEN [ok |-> TRUE, pos |-> branch.pos, col |-> push_null(col)]
             ELSE decode_value(bs, branch.pos, col)

\* Decodes `rows` records starting at p, field k of the current record next.
RECURSIVE decode_records(_, _, _, _, _, _)
decode_records(bs, p, rows, k, schema, cols) ==
    IF rows = 0 THEN [ok |-> p = Len(bs) + 1, cols |-> cols]
    ELSE IF k > Len(schema) THEN decode_records(bs, p, rows - 1, 1, schema, cols)
    ELSE LET f == decode_field(bs, p, schema[k], cols[k])
         IN  IF ~f.ok THEN [ok |-> FALSE, cols |-> cols]
             ELSE decode_records(bs, f.pos, rows, k + 1, schema, [cols EXCEPT ![k] = f.col])

\* Chunk assembler: every column must hold `count` elements and a Utf8 column
\* must pass check_offsets_minimal.
assemble(cols, count) ==
    \A k \in 1..Len(cols) :
        /\ Len(cols[k].validity) = count
        /\ cols[k].data_type = "Utf8" =>
               LET c == check_offsets_minimal(cols[k].offsets, Len(cols[k].values))
               IN  c.result = "Ok" /\ c.ret = count
        /\ cols[k].data_type = "Int64" => Len(cols[k].values) = count

\* Reader::next: pulls a block, decompresses it, decodes it: [ok, chunk].
reader_next(file, meta) ==
    LET bad == [ok |-> FALSE, chunk |-> <<>>]
        block == next_block(file.blocks, meta.marker)
        raw == decompress(meta.codec, block.body)
        dec == decode_records(raw.bytes, 1, block.count, 1, meta.schema,
                              [k \in 1..Len(meta.schema) |-> new_builder(meta.schema[k])])
    IN  IF ~block.ok THEN bad
        ELSE IF ~raw.ok THEN bad
        ELSE IF ~dec.ok \/ ~assemble(dec.cols, block.count) THEN bad
        ELSE [ok |-> TRUE, chunk |-> dec.cols]

NoMeta == [ok |-> FALSE, avro_schema |-> <<>>, schema |-> <<>>, codec |-> "null", marker |-> <<>>]
NoFile == [magic |-> <<>>, meta |-> [schema |-> <<>>, codec |-> "null"], marker |-> <<>>, blocks |-> <<>>]

\* The container pipeline is not running.
AvroIdle == records = <<>> /\ avro = <<>>

InitAvro ==
    /\ records \in NonEmptyRecordSeqs
    /\ avro = [c \in Codecs |-> [pc |-> "start", file |-> NoFile, meta |-> NoMeta, chunk |-> <<>>]]
    /\ offsets = <<>> /\ values = <<>> /\ values_len = 0
    /\ fn = "none" /\ pc = "idle" /\ i = 1 /\ result = "None" /\ ret = 0
    /\ sliced = {} /\ validated = {} /\ skipped = {}

\* write_avro(codec)
WriteAvro(c) ==
    /\ avro[c].pc = "start"
    /\ avro' = [avro EXCEPT ![c].pc = "written", ![c].file = write_avro(c, records)]
    /\ UNCHANGED <<records, chk_vars>>

\* read_avro, first statement: read::read_metadata(file)?
ReadMetadata(c) ==
    /\ avro[c].pc = "written"
    /\ LET m == read_metadata(avro[c].file)
       IN  avro' = [avro EXCEPT ![c].pc = IF m.ok THEN "meta" ELSE "failed", ![c].meta = m]
    /\ UNCHANGED <<records, chk_vars>>

\* read_avro, last statement: reader.next().unwrap()
ReaderNext(c) ==
    /\ avro[c].pc = "meta"
    /\ LET r == reader_next(avro[c].file, avro[c].meta)
       IN  avro' = [avro EXCEPT ![c].pc = IF r.ok THEN "done" ELSE "failed", ![c].chunk = r.chunk]
    /\ UNCHANGED <<records, chk_vars>>

NextAvro ==
    \/ \E c \in Codecs : WriteAvro(c)
    \/ \E c \in Codecs : ReadMetadata(c)
    \/ \E c \in Codecs : ReaderNext(c)

SpecAvro == InitAvro /\ [][NextAvro]_vars

----------------------------------------------------------------------------
(* Specification Spec: the UTF-8 forms *)

Init ==
    /\ values \in ValueBufs
    /\ offsets \in SeqsUpTo(Positions(values), MaxOffsets)
    /\ values_len = Len(values)
    /\ fn = "none"
    /\ pc = "idle"
    /\ i = 1
    /\ result = "None"
    /\ ret = 0
    /\ sliced = {}
    /\ validated = {}
    /\ skipped = {}
    /\ AvroIdle

\* Entry of (try_)check_offsets_and_utf8 on an all-ASCII buffer.
Utf8Ascii(f) ==
    /\ pc = "idle"
    /\ takes_ascii_path(values)
    /\ fn' = f
    /\ result' = Finish(f, try_check_offsets(offsets, Len(values)))
    /\ pc' = "done"
    /\ UNCHANGED <<offsets, values, values_len, i, ret, sliced, validated, skipped, avro_vars>>

\* Entry of (try_)check_offsets_and_utf8 on a buffer with a non-ASCII byte.
Utf8Enter(f) ==
    /\ pc = "idle"
    /\ ~takes_ascii_path(values)
    /\ fn' = f
    /\ pc' = "loop"
    /\ UNCHANGED <<offsets, values, values_len, i, result, ret, sliced, validated, skipped, avro_vars>>

\* One iteration of `for window in offsets.windows(2)`.
Utf8Window ==
    /\ pc = "loop"
    /\ i \in Windows(offsets)
    /\ LET st == window_step(offsets[i], offsets[i + 1], values)
       IN  /\ sliced' = IF st.sliced THEN sliced \cup {i} ELSE sliced
           /\ validated' = IF st.validated THEN validated \cup {i} ELSE validated
           /\ skipped' = IF st.skipped THEN skipped \cup {i} ELSE skipped
           /\ IF st.res = "Continue"
              THEN /\ i' = i + 1
                   /\ UNCHANGED <<pc, result>>
              ELSE /\ result' = Finish(fn, st.res)
                   /\ pc' = "done"
                   /\ UNCHANGED i
    /\ UNCHANGED <<offsets, values, values_len, fn, ret, avro_vars>>

\* The loop ran out of windows: Ok(()).
Utf8Return ==
    /\ pc = "loop"
    /\ i \notin Windows(offsets)
    /\ result' = Finish(fn, "Ok")
    /\ pc' = "done"
    /\ UNCHANGED <<offsets, values, values_len, fn, i, ret, sliced, validated, skipped, avro_vars>>

Next ==
    \/ \E f \in {"try_check_offsets_and_utf8", "check_offsets_and_utf8"} : Utf8Ascii(f)
    \/ \E f \in {"try_check_offsets_and_utf8", "check_offsets_and_utf8"} : Utf8Enter(f)
    \/ Utf8Window
    \/ Utf8Return

Spec == Init /\ [][Next]_vars

----------------------------------------------------------------------------
(* Specification SpecOffsets: the offsets-only forms *)

InitOffsets ==
    /\ values = <<>>
    /\ offsets \in SeqsUpTo(0..MaxOffset, MaxOffsets)
    /\ values_len = 0
    /\ fn = "none"
    /\ pc = "idle"
    /\ i = 1
    /\ result = "None"
    /\ ret = 0
    /\ sliced = {}
    /\ validated = {}
    /\ skipped = {}
    /\ AvroIdle

CallCheckOffsetsMinimal(vl) ==
    /\ pc = "idle"
    /\ fn' = "check_offsets_minimal"
    /\ values_len' = vl
    /\ LET r == check_offsets_minimal(offsets, vl)
       IN  result' = r.result /\ ret' = r.ret
    /\ pc' = "done"
    /\ UNCHANGED <<offsets, values, i, sliced, validated, skipped, avro_vars>>

CallTryCheckOffsets(vl) ==
    /\ pc = "idle"
    /\ fn' = "try_check_offsets"
    /\ values_len' = vl
    /\ result' = try_check_offsets(offsets, vl)
    /\ pc' = "done"
    /\ UNCHANGED <<offsets, values, i, ret, sliced, validated, skipped, avro_vars>>

CallCheckOffsets(vl) ==
    /\ pc = "idle"
    /\ fn' = "check_offsets"
    /\ values_len' = vl
    /\ result' = check_offsets(offsets, vl)
    /\ pc' = "done"
    /\ UNCHANGED <<offsets, values, i, ret, sliced, validated, skipped, avro_vars>>

NextOffsets ==
    \/ \E vl \in 0..MaxOffset : CallCheckOffsetsMinimal(vl)
    \/ \E vl \in 0..MaxOffset : CallTryCheckOffsets(vl)
    \/ \E vl \in 0..MaxOffset : CallCheckOffsets(vl)

SpecOffsets == InitOffsets /\ [][NextOffsets]_vars

----------------------------------------------------------------------------
(* Properties *)

NonDecreasing(offs) == \A k \in Windows(offs) : offs[k] <= offs[k + 1]

Failed(r) == IsErr(r) \/ r = "Panic"

Returned(f) == pc = "done" /\ fn = f

\* The Rust slice values[offsets[k]..offsets[k+1]] of window k (in range only).
SliceOf(k) == SubSeq(values, offsets[k] + 1, offsets[k + 1])

InRange(k) == offsets[k] <= offsets[k + 1] /\ offsets[k + 1] <= Len(values)

\* C1: try_check_offsets returns Ok exactly when offsets is non-decreasing and
\* every offset (not only the last) is <= values_len; it returns an error for
\* every offsets with a decreasing adjacent pair and for every offsets whose
\* last element exceeds values_len.
C1_TryCheckOffsetsExact ==
    Returned("try_check_offsets") =>
        /\ result \in {"Ok", "ErrMonotonic", "ErrBounds"}
        /\ (result = "Ok") <=>
               (NonDecreasing(offsets) /\ \A k \in 1..Len(offsets) : offsets[k] <= values_len)
        /\ ~NonDecreasing(offsets) => IsErr(result)
        /\ (Len(offsets) > 0 /\ offsets[Len(offsets)] > values_len) => IsErr(result)

\* An intermediate offset exceeds values_len while the last one does not.
C1_Witness ==
    /\ Returned("try_check_offsets")
    /\ Len(offsets) = 3
    /\ offsets[2] > values_len
    /\ offsets[3] <= values_len
    /\ IsErr(result)

\* C2 (as claimed): whenever try_check_offsets(offsets, values.len()) returns
\* an error, (try_)check_offsets_and_utf8(offsets, values) fails too.
C2_Utf8ImpliesOffsetsCheck ==
    (pc = "done" /\ fn \in {"try_check_offsets_and_utf8", "check_offsets_and_utf8"}) =>
        (IsErr(try_check_offsets(offsets, Len(values))) => Failed(result))

\* C3: if some adjacent pair is in range and its slice is not valid UTF-8,
\* try_check_offsets_and_utf8 returns an error, whatever the other slices hold
\* and whatever the length of the slice.
C3_InvalidSliceRejected ==
    Returned("try_check_offsets_and_utf8") =>
        ((\E k \in Windows(offsets) : InRange(k) /\ ~from_utf8_ok(SliceOf(k)))
            => IsErr(result))

\* A valid buffer, a first slice that is fine and a second one that cuts a
\* multi-byte character.
C3_Witness ==
    /\ Returned("try_check_offsets_and_utf8")
    /\ from_utf8_ok(values)
    /\ Len(offsets) = 3
    /\ InRange(1) /\ from_utf8_ok(SliceOf(1))
    /\ InRange(2) /\ ~from_utf8_ok(SliceOf(2))
    /\ result = "ErrUtf8"

\* C4: check_offsets_minimal returns offsets.len()-1 without failing for every
\* non-empty non-decreasing offsets whose last element equals values_len, and
\* panics whenever offsets is empty or its last element differs from values_len.
C4_MinimalContract ==
    Returned("check_offsets_minimal") =>
        /\ (Len(offsets) > 0 /\ NonDecreasing(offsets) /\ offsets[Len(offsets)] = values_len)
               => (result = "Ok" /\ ret = Len(offsets) - 1)
        /\ (Len(offsets) = 0 \/ offsets[Len(offsets)] # values_len) => result = "Panic"

C4_Witness ==
    /\ Returned("check_offsets_minimal")
    /\ Len(offsets) = 3
    /\ NonDecreasing(offsets)
    /\ result = "Ok"
    /\ ret = 2

\* C5 (as claimed): check_offsets_minimal fails for every offsets sequence
\* that contains a decreasing adjacent pair.
C5_MinimalRejectsDecreasing ==
    (Returned("check_offsets_minimal") /\ ~NonDecreasing(offsets)) => result = "Panic"

\* C5 (amended): check_offsets_minimal succeeds only if offsets has length
\* len+1, len being the value returned, and its last entry equals values_len;
\* the order of the offsets is not looked at.
C5_MinimalEnforcesLengthAndLast ==
    (Returned("check_offsets_minimal") /\ result = "Ok") =>
        /\ Len(offsets) = ret + 1
        /\ offsets[Len(offsets)] = values_len

\* It succeeds on offsets with a decreasing pair.
C5_Witness ==
    /\ Returned("check_offsets_minimal")
    /\ result = "Ok"
    /\ ~NonDecreasing(offsets)

\* C6: for an all-ASCII values buffer, try_check_offsets_and_utf8 succeeds iff
\* try_check_offsets(offsets, values.len()) succeeds.
C6_AsciiSameAsOffsetsCheck ==
    (Returned("try_check_offsets_and_utf8") /\ is_ascii(values)) =>
        ((result = "Ok") <=> (try_check_offsets(offsets, Len(values)) = "Ok"))

\* A single offset beyond the end of a non-empty ASCII buffer is rejected.
C6_Witness ==
    /\ Returned("try_check_offsets_and_utf8")
    /\ is_ascii(values) /\ Len(values) > 0
    /\ Len(offsets) = 1
    /\ result = "ErrBounds"

C9_SliceOnlyInRange ==
    /\ \A k \in sliced : k \in Windows(offsets) /\ InRange(k)
    /\ fn = "try_check_offsets_and_utf8" => result # "Panic"
    /\ Returned("try_check_offsets_and_utf8") => (result = "Ok" \/ IsErr(result))

\* A slice was taken for the first window, the second window is out of bounds.
C9_Witness ==
    /\ Returned("try_check_offsets_and_utf8")
    /\ sliced = {1}
    /\ Len(offsets) = 3
    /\ offsets[3] > Len(values)
    /\ result = "ErrBounds"

\* C10: for a values buffer with a non-ASCII byte, try_check_offsets_and_utf8
\* returns Ok exactly when every adjacent pair is in range and its slice is
\* valid UTF-8; of the slices it looks at, those shorter than 64 bytes and
\* all-ASCII skip the validator and all the others are handed to it.
C10_FastPathKeepsOutcome ==
    (fn = "try_check_offsets_and_utf8" /\ ~is_ascii(values)) =>
        /\ \A k \in sliced :
               LET fast == Len(SliceOf(k)) < SIMD_CHUNK_SIZE /\ is_ascii(SliceOf(k))
               IN  /\ (k \in skipped) <=> fast
                   /\ (k \in validated) <=> ~fast
        /\ skipped \cup validated = sliced
        /\ pc = "done" =>
               /\ (result = "Ok") <=>
                      \A k \in Windows(offsets) : InRange(k) /\ from_utf8_ok(SliceOf(k))
               /\ result = "Ok" => sliced = Windows(offsets)

\* A buffer with a non-ASCII byte, a short ASCII slice that takes the fast path
\* and an ASCII slice of exactly SIMD_CHUNK_SIZE bytes that goes to the validator.
C10_Witness ==
    /\ Returned("try_check_offsets_and_utf8")
    /\ ~is_ascii(values)
    /\ result = "Ok"
    /\ skipped # {}
    /\ \E k \in validated : is_ascii(SliceOf(k)) /\ Len(SliceOf(k)) = SIMD_CHUNK_SIZE

====
